---- MODULE Spec2Model ----
(***************************************************************************)
(* Model of the stateless Aadhaar verification backend                     *)
(* (src/backend/main_stateless.py): the per-side classifier, the status    *)
(* decision, the /detect handler with its background review-queue task,    *)
(* and the process-wide manual review queue.                               *)
(*                                                                         *)
(* The file-based service (src/backend/main.py) is modelled beside it.      *)
(*                                                                         *)
(* Spec drives one client over the wide input domain; ConcSpec interleaves *)
(* two clients, /review-queue and /health over a small one; ClassifySpec   *)
(* takes single-image requests from detection to response in one step and  *)
(* keeps the model's boxes beside the result.  FairConcSpec is ConcSpec    *)
(* with the scheduled background tasks run eventually.  TensorSpec runs    *)
(* the tensor detector (src/backend/onnx_detector.py) once on a raw        *)
(* output.                                                                 *)
(*                                                                         *)
(* Confidences are hundredths (0.92 is 92).  Python's None is the string   *)
(* "None".  A value that Python can make either a bool or a string         *)
(* (both_detected) is kept as a string: "True", "False" or the payload.    *)
(***************************************************************************)
EXTENDS Integers, Sequences, FiniteSets, TLC

\* ------------------------------------------------------------------ bounds
\* Boxes the model returns for one image, and columns of a raw tensor.
MaxDet == 2
\* Review items created over a run (caps the queue and the clock).
MaxQueue == 1

\* --------------------------------------------------------------- constants
CONFIDENCE_THRESHOLD == 15
LOW_CONFIDENCE_THRESHOLD == 10

None == "None"
APPROVED == "approved"
REJECTED == "rejected"
PENDING_REVIEW == "pending_review"

\* ------------------------------------------------------------ input domains
Users == {"u1", "u2"}
\* Users whose requests the sequential specification handles.
SeqUsers == {"u1"}
\* The front_image / back_image strings a request may carry.
FrontImages == {None, "front_bad", "front_b64"}
BackImages == {None, "back_bad", "back_b64"}
\* Strings that base64-decode to an image cv2 can read.
DecodableImages == {"front_b64", "back_b64", "back_alt_b64"}
\* Per-request confidence_threshold values: the default and one below the
\* low-confidence threshold.
Thresholds == {8, CONFIDENCE_THRESHOLD}
Confidences == {8, 88, 92}
ClassNames == {"aadhar_front", "aadhar_back", "print_aadhar"}
Boxes == [class : ClassNames, confidence : Confidences]

RECURSIVE SeqsUpTo(_, _)
SeqsUpTo(S, n) ==
    IF n = 0 THEN {<<>>}
    ELSE LET shorter == SeqsUpTo(S, n - 1)
         IN  shorter \cup {Append(s, x) : s \in {t \in shorter : Len(t) = n - 1}, x \in S}

\* What self.model(image) may do: raise, or return boxes.
InferenceOutcomes ==
    {[raised |-> TRUE, boxes |-> <<>>]}
        \cup {[raised |-> FALSE, boxes |-> b] : b \in SeqsUpTo(Boxes, MaxDet)}

Requests ==
    [user_id : Users, front_image : FrontImages, back_image : BackImages,
     confidence_threshold : Thresholds, force_upload : BOOLEAN]

\* ------------------------------------------------------------ Python values
\* Truthiness of an Optional[str].
Truthy(s) == s # None /\ s # ""

PyBool(b) == IF b THEN "True" ELSE "False"

\* Truthiness of a value held as a string ("False" and "None" are the
\* bool False and None, never payload strings).
TruthyVal(v) == v \notin {"False", None, ""}

\* a or b on floats: a when a is non-zero, else b.
FloatOr(a, b) == IF a # 0 THEN a ELSE b

\* ---------------------------------------------------------- per-side detect
decode_base64_image(s) == IF s \in DecodableImages THEN s ELSE None

InitialSideResult ==
    [detected |-> FALSE, class |-> None, confidence |-> 0,
     print_aadhar_detected |-> FALSE, all_detections |-> <<>>, error |-> FALSE]

\* ScanBox without the confidence floor on card labels.
ScanBox_NoFloor(result, box, confidence_threshold) ==
    LET logged == [result EXCEPT !.all_detections = Append(@, box)]
        flagged ==
            IF box.class = "print_aadhar" /\ box.confidence > confidence_threshold
            THEN [logged EXCEPT !.print_aadhar_detected = TRUE]
            ELSE logged
    IN  IF /\ box.class \in {"aadhar_front", "aadhar_back"}
           /\ box.confidence > flagged.confidence
        THEN [flagged EXCEPT !.detected = TRUE, !.class = box.class,
                             !.confidence = box.confidence]
        ELSE flagged

\* One iteration of the loop over predictions[0].boxes.
ScanBox(result, box, confidence_threshold) ==
    LET logged == [result EXCEPT !.all_detections = Append(@, box)]
        flagged ==
            IF box.class = "print_aadhar" /\ box.confidence > confidence_threshold
            THEN [logged EXCEPT !.print_aadhar_detected = TRUE]
            ELSE logged
    IN  IF /\ box.confidence >= confidence_threshold
           /\ box.class \in {"aadhar_front", "aadhar_back"}
           /\ box.confidence > flagged.confidence
        THEN [flagged EXCEPT !.detected = TRUE, !.class = box.class,
                             !.confidence = box.confidence]
        ELSE flagged

RECURSIVE ScanBoxes(_, _, _)
ScanBoxes(result, boxes, confidence_threshold) ==
    IF boxes = <<>> THEN result
    ELSE ScanBoxes(ScanBox(result, Head(boxes), confidence_threshold),
                   Tail(boxes), confidence_threshold)

detect_from_bytes(outcome, confidence_threshold) ==
    IF outcome.raised
    THEN [InitialSideResult EXCEPT !.error = TRUE]
    ELSE ScanBoxes(InitialSideResult, outcome.boxes, confidence_threshold)

\* ------------------------------------------------------- both-side detection
InitialResult ==
    [front_detected |-> FALSE, back_detected |-> FALSE,
     front_confidence |-> 0, back_confidence |-> 0,
     print_aadhar_detected |-> FALSE,
     details |-> [front |-> <<>>, back |-> <<>>],
     status |-> REJECTED]

\* An entry of a details list, kept by its kind: the {"error": ...} dict of a
\* failed decode, or the {"class", "confidence"} dict of one box.
DecodeError == "error"
DetailOf(box) == "detection"
DetailsOf(all_detections) ==
    [i \in 1..Len(all_detections) |-> DetailOf(all_detections[i])]

\* The front slot taking the image's best confidence whatever its label.
ProcessFront_KeepsConfidence(result, front_base64, outcome, confidence_threshold) ==
    IF ~Truthy(front_base64) THEN result
    ELSE IF decode_base64_image(front_base64) = None
    THEN [result EXCEPT !.details.front = Append(@, DecodeError)]
    ELSE LET front_result == detect_from_bytes(outcome, confidence_threshold)
         IN  [result EXCEPT
                !.print_aadhar_detected = front_result.print_aadhar_detected,
                !.front_detected =
                    front_result.detected /\ front_result.class = "aadhar_front",
                !.front_confidence = front_result.confidence,
                !.details.front = DetailsOf(front_result.all_detections)]

ProcessFront(result, front_base64, outcome, confidence_threshold) ==
    IF ~Truthy(front_base64) THEN result
    ELSE IF decode_base64_image(front_base64) = None
    THEN [result EXCEPT !.details.front = Append(@, DecodeError)]
    ELSE LET front_result == detect_from_bytes(outcome, confidence_threshold)
             flagged ==
                 IF front_result.print_aadhar_detected
                 THEN [result EXCEPT !.print_aadhar_detected = TRUE]
                 ELSE result
         IN  IF front_result.detected /\ front_result.class = "aadhar_front"
             THEN [flagged EXCEPT !.front_detected = TRUE,
                                  !.front_confidence = front_result.confidence,
                                  !.details.front = DetailsOf(front_result.all_detections)]
             ELSE [flagged EXCEPT !.details.front = DetailsOf(front_result.all_detections)]

ProcessBack(result, back_base64, outcome, confidence_threshold) ==
    IF ~Truthy(back_base64) THEN result
    ELSE IF decode_base64_image(back_base64) = None
    THEN [result EXCEPT !.details.back = Append(@, DecodeError)]
    ELSE LET back_result == detect_from_bytes(outcome, confidence_threshold)
             flagged ==
                 IF back_result.print_aadhar_detected
                 THEN [result EXCEPT !.print_aadhar_detected = TRUE]
                 ELSE result
         IN  IF back_result.detected /\ back_result.class = "aadhar_back"
             THEN [flagged EXCEPT !.back_detected = TRUE,
                                  !.back_confidence = back_result.confidence,
                                  !.details.back = DetailsOf(back_result.all_detections)]
             ELSE [flagged EXCEPT !.details.back = DetailsOf(back_result.all_detections)]

\* The low-confidence test with "and" for "or".
BothLowConfidence_And(result) ==
    /\ result.front_confidence < LOW_CONFIDENCE_THRESHOLD
    /\ result.back_confidence < LOW_CONFIDENCE_THRESHOLD

BothLowConfidence(result) ==
    \/ result.front_confidence < LOW_CONFIDENCE_THRESHOLD
    \/ result.back_confidence < LOW_CONFIDENCE_THRESHOLD

\* The status decision approving a single detected side of good confidence.
DetermineStatus_AnySide(result) ==
    IF result.print_aadhar_detected THEN REJECTED
    ELSE IF result.front_detected /\ result.back_detected
    THEN IF BothLowConfidence(result) THEN PENDING_REVIEW ELSE APPROVED
    ELSE IF result.front_detected \/ result.back_detected
    THEN IF FloatOr(result.front_confidence, result.back_confidence)
                < LOW_CONFIDENCE_THRESHOLD
         THEN PENDING_REVIEW
         ELSE APPROVED
    ELSE result.status

DetermineStatus(result) ==
    IF result.print_aadhar_detected THEN REJECTED
    ELSE IF result.front_detected /\ result.back_detected
    THEN IF BothLowConfidence(result) THEN PENDING_REVIEW ELSE APPROVED
    ELSE IF result.front_detected \/ result.back_detected
    THEN IF FloatOr(result.front_confidence, result.back_confidence)
                < LOW_CONFIDENCE_THRESHOLD
         THEN PENDING_REVIEW
         ELSE result.status
    ELSE result.status

\* What became of one slot's image in detect_cards_from_base64: not supplied,
\* undecodable, inference raised inside detect_from_bytes, or classified.
SideEvent(base64, outcome) ==
    IF ~Truthy(base64) THEN "absent"
    ELSE IF decode_base64_image(base64) = None THEN "decode_failed"
    ELSE IF outcome.raised THEN "inference_raised"
    ELSE "classified"

\* detect_cards_from_base64 from the back image on: the back slot, then the
\* status decision, on the result the front slot left.
FinishDetection(result, back_base64, outcome, confidence_threshold) ==
    LET scanned == ProcessBack(result, back_base64, outcome, confidence_threshold)
    IN  [scanned EXCEPT !.status = DetermineStatus(scanned)]

\* detect_cards_from_base64 as a whole, given what the model does on each image.
detect_cards_from_base64(front_base64, back_base64, front_outcome, back_outcome, thr) ==
    FinishDetection(
        ProcessFront(InitialResult, front_base64, front_outcome, thr),
        back_base64, back_outcome, thr)

\* ------------------------------------------------------------ /detect handler
FORCE_UPLOAD_REASON == "Force upload - bypassed client-side checks"
LOW_CONFIDENCE_REASON == "Low confidence detection"

NoData ==
    [user_id |-> None, front_detected |-> FALSE, back_detected |-> FALSE,
     front_confidence |-> 0, back_confidence |-> 0, both_detected |-> None,
     status |-> None, details |-> [front |-> <<>>, back |-> <<>>],
     print_aadhar_detected |-> FALSE]

\* A JSONResponse: keys / data_keys say which keys the body carries; a field
\* whose key is absent holds a default.
NoResponse ==
    [status_code |-> 0, keys |-> {}, success |-> FALSE, detected |-> FALSE,
     status |-> None, message |-> "", data_keys |-> {}, data |-> NoData]

\* The no-image check skipped for a forced upload.
NoImageSupplied_UnlessForced(req) ==
    ~Truthy(req.front_image) /\ ~Truthy(req.back_image) /\ ~req.force_upload

\* not request.front_image and not request.back_image
NoImageSupplied(req) == ~Truthy(req.front_image) /\ ~Truthy(req.back_image)

NotInitializedResponse ==
    [NoResponse EXCEPT !.status_code = 503, !.keys = {"success", "message"},
                       !.message = "Detector not initialized"]

NoImageResponse ==
    [NoResponse EXCEPT !.status_code = 400, !.keys = {"success", "message"},
        !.message = "At least one image (front_image or back_image) is required."]

SecurityViolationResponse ==
    [NoResponse EXCEPT !.status_code = 400, !.keys = {"success", "message", "data"},
        !.message = "Print Aadhaar detected - security violation",
        !.data_keys = {"print_aadhar_detected"},
        !.data = [NoData EXCEPT !.print_aadhar_detected = TRUE]]

\* The security check skipped for a forced upload.
SecurityViolation_UnlessForced(req, result) ==
    result.print_aadhar_detected /\ ~req.force_upload

SecurityViolation(req, result) == result.print_aadhar_detected

\* The force path taken only when some side was detected.
TakesForcePath_NeedsDetection(req, result) ==
    /\ req.force_upload
    /\ result.front_detected \/ result.back_detected
    /\ ~(result.front_detected /\ result.back_detected)

\* The force_upload flag ignored.
TakesForcePath_Never(req, result) == FALSE

TakesForcePath(req, result) ==
    req.force_upload /\ ~(result.front_detected /\ result.back_detected)

\* A review item scheduled for every status but approved.
NeedsLowConfidenceReview_NotApproved(req, result) == result.status # APPROVED

NeedsLowConfidenceReview(req, result) == result.status = PENDING_REVIEW

ManualReviewItem(req, result, now, reason) ==
    [user_id |-> req.user_id, timestamp |-> now,
     front_confidence |-> result.front_confidence,
     back_confidence |-> result.back_confidence, reason |-> reason]

ForceUploadResponse(req, result) ==
    [NoResponse EXCEPT
        !.status_code = 200,
        !.keys = {"success", "detected", "status", "message", "data"},
        !.success = TRUE, !.detected = TRUE, !.status = PENDING_REVIEW,
        !.message = "Document submitted for manual review",
        !.data_keys = {"user_id", "front_detected", "back_detected",
                       "front_confidence", "back_confidence", "both_detected"},
        !.data = [NoData EXCEPT
            !.user_id = req.user_id,
            !.front_detected = result.front_detected,
            !.back_detected = result.back_detected,
            !.front_confidence = result.front_confidence,
            !.back_confidence = result.back_confidence,
            !.both_detected = PyBool(result.front_detected /\ result.back_detected)]]

\* front_ok and back_ok and request.front_image and request.back_image:
\* Python's "and" yields the first falsy operand, else the last operand.
BothProvidedAndDetected(req, result) ==
    IF ~result.front_detected THEN "False"
    ELSE IF ~result.back_detected THEN "False"
    ELSE IF ~Truthy(req.front_image) THEN req.front_image
    ELSE req.back_image

\* The missing list built without looking at which sides were supplied.
MissingSides_Unrequested(req, front_ok, back_ok) ==
    (IF ~front_ok THEN <<"front">> ELSE <<>>)
        \o (IF ~back_ok THEN <<"back">> ELSE <<>>)

MissingSides(req, front_ok, back_ok) ==
    (IF Truthy(req.front_image) /\ ~front_ok THEN <<"front">> ELSE <<>>)
        \o (IF Truthy(req.back_image) /\ ~back_ok THEN <<"back">> ELSE <<>>)

\* ''.join(missing)
RECURSIVE JoinComma_NoSeparator(_)
JoinComma_NoSeparator(parts) ==
    IF parts = <<>> THEN ""
    ELSE parts[1] \o JoinComma_NoSeparator(Tail(parts))

\* ', '.join(missing)
RECURSIVE JoinComma(_)
JoinComma(parts) ==
    IF parts = <<>> THEN ""
    ELSE IF Len(parts) = 1 THEN parts[1]
    ELSE parts[1] \o ", " \o JoinComma(Tail(parts))

Message(req, result) ==
    LET front_ok == result.front_detected
        back_ok == result.back_detected
        missing == MissingSides(req, front_ok, back_ok)
    IN  IF TruthyVal(BothProvidedAndDetected(req, result))
        THEN "Both Aadhaar cards detected successfully."
        ELSE IF front_ok THEN "Aadhaar front card detected successfully."
        ELSE IF back_ok THEN "Aadhaar back card detected successfully."
        ELSE IF missing # <<>>
        THEN "Could not detect Aadhaar card(s): " \o JoinComma(missing) \o "."
        ELSE "No Aadhaar card detected in the provided image(s)."

DetectionResponse(req, result) ==
    [NoResponse EXCEPT
        !.status_code = 200,
        !.keys = {"success", "detected", "message", "data"},
        !.success = TRUE,
        !.detected = (result.front_detected \/ result.back_detected),
        !.message = Message(req, result),
        !.data_keys = {"user_id", "front_detected", "back_detected",
                       "front_confidence", "back_confidence", "both_detected",
                       "status", "details"},
        !.data = [NoData EXCEPT
            !.user_id = req.user_id,
            !.front_detected = result.front_detected,
            !.back_detected = result.back_detected,
            !.front_confidence = result.front_confidence,
            !.back_confidence = result.back_confidence,
            !.both_detected = BothProvidedAndDetected(req, result),
            !.status = result.status,
            !.details = result.details]]

\* The reason of the review item the handler schedules, None when it
\* schedules none.
ReviewReason(req, result) ==
    IF SecurityViolation(req, result) THEN None
    ELSE IF TakesForcePath(req, result) THEN FORCE_UPLOAD_REASON
    ELSE IF NeedsLowConfidenceReview(req, result) THEN LOW_CONFIDENCE_REASON
    ELSE None

HandlerResponse(req, result) ==
    IF SecurityViolation(req, result) THEN SecurityViolationResponse
    ELSE IF TakesForcePath(req, result) THEN ForceUploadResponse(req, result)
    ELSE DetectionResponse(req, result)

\* ------------------------------------------- file-based service (main.py)
\* The file-based service takes passport_first / passport_old, a URL or a
\* local path each; the request record keeps them as front_image / back_image.
FrontUrls == {None, "front_url_bad", "front_url"}
BackUrls == {None, "back_url_bad", "back_url"}
\* The references download_image can fetch or copy.
DownloadableUrls == {"front_url", "back_url"}

FileRequests ==
    [user_id : Users, front_image : FrontUrls, back_image : BackUrls,
     confidence_threshold : Thresholds, force_upload : {FALSE}]

download_image(url) == url \in DownloadableUrls

\* detect_cards has no status key; the field is kept and holds None.
FileInitialResult == [InitialResult EXCEPT !.status = None]

\* One iteration of a loop over the boxes of one image; label is the
\* slot's class, slot its key in details.
FileScanBox(result, box, confidence_threshold, slot) ==
    IF box.confidence < confidence_threshold THEN result
    ELSE IF box.class = "print_aadhar"
    THEN [result EXCEPT !.print_aadhar_detected = TRUE]
    ELSE IF slot = "front" /\ box.class = "aadhar_front"
    THEN [result EXCEPT !.front_detected = TRUE,
                        !.front_confidence = box.confidence,
                        !.details.front = Append(@, DetailOf(box))]
    ELSE IF slot = "back" /\ box.class = "aadhar_back"
    THEN [result EXCEPT !.back_detected = TRUE,
                        !.back_confidence = box.confidence,
                        !.details.back = Append(@, DetailOf(box))]
    ELSE result

RECURSIVE FileScanBoxes(_, _, _, _)
FileScanBoxes(result, boxes, confidence_threshold, slot) ==
    IF boxes = <<>> THEN result
    ELSE FileScanBoxes(FileScanBox(result, Head(boxes), confidence_threshold, slot),
                       Tail(boxes), confidence_threshold, slot)

\* One slot of detect_cards: image_path is None when the side was not
\* downloaded, exists says whether the file is on disk.
FileProcessSide(result, image_path, exists, outcome, confidence_threshold, slot) ==
    IF Truthy(image_path) /\ exists
    THEN IF outcome.raised
         THEN [result EXCEPT !.details[slot] = Append(@, DecodeError)]
         ELSE FileScanBoxes(result, outcome.boxes, confidence_threshold, slot)
    ELSE IF Truthy(image_path)
    THEN [result EXCEPT !.details[slot] = Append(@, DecodeError)]
    ELSE result

FileSideEvent(image_path, exists, outcome) ==
    IF ~Truthy(image_path) THEN "absent"
    ELSE IF ~exists THEN "decode_failed"
    ELSE IF outcome.raised THEN "inference_raised"
    ELSE "classified"

InternalErrorResponse ==
    [NoResponse EXCEPT !.status_code = 500, !.keys = {"success", "message", "error"},
                       !.message = "Internal server error"]

FileNoImageResponse ==
    [NoResponse EXCEPT !.status_code = 400, !.keys = {"success", "message"},
        !.message = "At least one image URL (passport_first or passport_old) is required."]

\* front_ok and back_ok and front_downloaded and back_downloaded: all bools.
FileBothProvidedAndDetected(req, result) ==
    PyBool(/\ result.front_detected /\ result.back_detected
           /\ download_image(req.front_image) /\ download_image(req.back_image))

FileMessage(req, result) ==
    LET front_ok == result.front_detected
        back_ok == result.back_detected
        missing == MissingSides(req, front_ok, back_ok)
    IN  IF TruthyVal(FileBothProvidedAndDetected(req, result))
        THEN "Both Aadhaar cards detected successfully."
        ELSE IF front_ok THEN "Aadhaar front card detected successfully."
        ELSE IF back_ok THEN "Aadhaar back card detected successfully."
        ELSE IF missing # <<>>
        THEN "Could not detect Aadhaar card(s): " \o JoinComma(missing) \o "."
        ELSE "No Aadhaar card detected in the provided image(s)."

FileDetectionResponse(req, result) ==
    [NoResponse EXCEPT
        !.status_code = 200,
        !.keys = {"success", "detected", "message", "data"},
        !.success = TRUE,
        !.detected = (result.front_detected \/ result.back_detected),
        !.message = FileMessage(req, result),
        !.data_keys = {"user_id", "front_detected", "back_detected",
                       "front_confidence", "back_confidence", "both_detected",
                       "details"},
        !.data = [NoData EXCEPT
            !.user_id = req.user_id,
            !.front_detected = result.front_detected,
            !.back_detected = result.back_detected,
            !.front_confidence = result.front_confidence,
            !.back_confidence = result.back_confidence,
            !.both_detected = FileBothProvidedAndDetected(req, result),
            !.details = result.details]]

FileHandlerResponse(req, result) ==
    IF result.print_aadhar_detected THEN SecurityViolationResponse
    ELSE FileDetectionResponse(req, result)

\* ------------------------------------- tensor detector (onnx_detector.py)
\* Scores and thresholds of the tensor detector are in hundredths too.
ONNX_CONFIDENCE_THRESHOLD == 25
MODEL_INPUT_SIZE == 640
\* The class channels detect reads: for c in range(3).
NUM_CLASS_CHANNELS == 3
\* Index 0 = back, 1 = front, 2 = print; a TLA+ sequence counts from 1.
CLASS_NAMES == <<"aadhaar_back", "aadhaar_front", "print_aadhaar">>

\* The raw output [1, channels, detections], kept by column: the four box
\* channels of a column and, in scores, its channels from the fifth on.
TensorScores == {25, 30, 90}
MalformedScores == {30, 90}
TensorBoxes ==
    {[x_center |-> 320, y_center |-> 320, width |-> 200, height |-> 100],
     [x_center |-> 100, y_center |-> 200, width |-> 50, height |-> 80]}
\* The shape of the image handed to detect.
ImageShapes == {[width |-> 1280, height |-> 640]}

\* The numbers of class channels a model may come with.
ClassChannelCounts ==
    {NUM_CLASS_CHANNELS - 1, NUM_CLASS_CHANNELS, NUM_CLASS_CHANNELS + 1}

ScoresOf(k) == IF k = NUM_CLASS_CHANNELS THEN TensorScores ELSE MalformedScores

\* What session.run hands back for a model with k class channels and n
\* columns: one tensor.
OnnxOutputsOf(k, n) ==
    {<<[channels |-> 4 + k, columns |-> cols]>> :
        cols \in [1..n -> [box : TensorBoxes, scores : [1..k -> ScoresOf(k)]]]}

InitialBestDetection ==
    [detected |-> FALSE, card_type |-> None, confidence |-> 0, bbox |-> None]

\* max(class_scores)
RECURSIVE MaxOf(_)
MaxOf(class_scores) ==
    IF Len(class_scores) = 1 THEN class_scores[1]
    ELSE LET rest == MaxOf(Tail(class_scores))
         IN  IF class_scores[1] >= rest THEN class_scores[1] ELSE rest

\* class_scores.index(max_score): the first index that holds it.
IndexOf(class_scores, max_score) ==
    CHOOSE c \in DOMAIN class_scores :
        /\ class_scores[c] = max_score
        /\ \A d \in DOMAIN class_scores : class_scores[d] = max_score => c <= d

\* The box of a column scaled to the original image.
ScaledBox(box, image) ==
    [x |-> ((box.x_center - box.width \div 2) * image.width) \div MODEL_INPUT_SIZE,
     y |-> ((box.y_center - box.height \div 2) * image.height) \div MODEL_INPUT_SIZE,
     width |-> (box.width * image.width) \div MODEL_INPUT_SIZE,
     height |-> (box.height * image.height) \div MODEL_INPUT_SIZE]

\* One turn of the loop over the columns, replacing the best detection
\* also on an equal score.
ScanColumn_OrEqual(best_detection, column, image) ==
    LET class_scores == SubSeq(column.scores, 1, NUM_CLASS_CHANNELS)
        max_score == MaxOf(class_scores)
        max_class_idx == IndexOf(class_scores, max_score)
    IN  IF max_score > ONNX_CONFIDENCE_THRESHOLD
              /\ max_score >= best_detection.confidence
        THEN [detected |-> TRUE, card_type |-> CLASS_NAMES[max_class_idx],
              confidence |-> max_score, bbox |-> ScaledBox(column.box, image)]
        ELSE best_detection

\* One turn of the loop over the columns.
ScanColumn(best_detection, column, image) ==
    LET class_scores == SubSeq(column.scores, 1, NUM_CLASS_CHANNELS)
        max_score == MaxOf(class_scores)
        max_class_idx == IndexOf(class_scores, max_score)
    IN  IF max_score > ONNX_CONFIDENCE_THRESHOLD
              /\ max_score > best_detection.confidence
        THEN [detected |-> TRUE, card_type |-> CLASS_NAMES[max_class_idx],
              confidence |-> max_score, bbox |-> ScaledBox(column.box, image)]
        ELSE best_detection

\* The loop over the columns from column i on; reading a class channel
\* the tensor does not have raises IndexError.
RECURSIVE ScanColumns(_, _, _, _)
ScanColumns(output, image, i, best_detection) ==
    IF i > Len(output.columns)
    THEN [raised |-> None, value |-> best_detection]
    ELSE IF output.channels < 4 + NUM_CLASS_CHANNELS
    THEN [raised |-> "IndexError", value |-> None]
    ELSE ScanColumns(output, image, i + 1,
                     ScanColumn(best_detection, output.columns[i], image))

\* AadhaarDetector.detect from the result of session.run on.
detect(outputs, image) ==
    IF outputs = <<>> THEN [raised |-> "IndexError", value |-> None]
    ELSE ScanColumns(outputs[1], image, 1, InitialBestDetection)

NoOnnxCall ==
    [called |-> FALSE, outputs |-> <<>>, image |-> [width |-> 0, height |-> 0],
     returned |-> [raised |-> None, value |-> None]]

\* ----------------------------------------------------------------- state
VARIABLES
    service,               \* which program runs: "stateless" or "file"
    phase,                 \* "startup", "serving" or "exited"
    detector,              \* None or "loaded"
    manual_review_queue,   \* the process-wide list
    clock,                 \* datetime.utcnow(), as the number of reads so far
    loop_owner,            \* the user whose handler holds the event loop, or None
    pc,                    \* per user: where its /detect request stands
    request,               \* per user: the request body
    detection_result,      \* per user: the result dict of the detection
    response,              \* per user: the last response returned
    review_item,           \* per user: the handler's local review_item
    background_tasks,      \* per user: the request's BackgroundTasks
    side_events,           \* per user: what became of each slot's image
    user_dir,              \* per user: whether its download directory exists
    review_queue_response, \* the last body GET /review-queue returned
    health_response,       \* the last response GET /health returned
    classified,            \* the last single-image run, with its inputs
    onnx_call              \* the last run of the tensor detector, with its inputs

vars == <<service, phase, detector, manual_review_queue, clock, loop_owner, pc,
          request, detection_result, response, review_item, background_tasks,
          side_events, user_dir, review_queue_response, health_response,
          classified, onnx_call>>

\* The variables of the process, and those of one user's request.
process_vars == <<service, phase, detector>>

\* What the other endpoints returned last, and the single-image record.
endpoint_vars == <<review_queue_response, health_response, classified, onnx_call>>

NoEvents == [front |-> "absent", back |-> "absent"]

NoRequest ==
    [user_id |-> None, front_image |-> None, back_image |-> None,
     confidence_threshold |-> CONFIDENCE_THRESHOLD, force_upload |-> FALSE]

NoItem ==
    [user_id |-> None, timestamp |-> 0, front_confidence |-> 0,
     back_confidence |-> 0, reason |-> None]

\* The body of GET /review-queue; called says whether one was returned.
NoListing == [called |-> FALSE, success |-> FALSE, count |-> 0, items |-> <<>>]

\* The response of GET /health.
NoHealth == [status_code |-> 0, success |-> FALSE, detector_status |-> None]

NotClassified ==
    [slot |-> None, request |-> NoRequest,
     outcome |-> [raised |-> FALSE, boxes |-> <<>>],
     result |-> InitialResult, response |-> NoResponse]

Services == {"stateless", "file"}

Init ==
    /\ service \in Services
    /\ phase = "startup"
    /\ detector = None
    /\ manual_review_queue = <<>>
    /\ clock = 0
    /\ loop_owner = None
    /\ pc = [u \in Users |-> "idle"]
    /\ request = [u \in Users |-> NoRequest]
    /\ detection_result = [u \in Users |-> InitialResult]
    /\ response = [u \in Users |-> NoResponse]
    /\ review_item = [u \in Users |-> NoItem]
    /\ background_tasks = [u \in Users |-> <<>>]
    /\ side_events = [u \in Users |-> NoEvents]
    /\ user_dir = [u \in Users |-> FALSE]
    /\ review_queue_response = NoListing
    /\ health_response = NoHealth
    /\ classified = NotClassified
    /\ onnx_call = NoOnnxCall

\* startup_event logging the failure and letting the process serve.
Startup_ServesWithoutModel ==
    /\ phase = "startup"
    /\ \E model_exists \in BOOLEAN :
          IF model_exists
          THEN detector' = "loaded" /\ phase' = "serving"
          ELSE detector' = detector /\ phase' = "serving"
    /\ UNCHANGED <<endpoint_vars, service, manual_review_queue, clock, loop_owner,
                   pc, request, detection_result, response, review_item,
                   background_tasks, side_events, user_dir>>

\* startup_event: load the model or exit.
Startup ==
    /\ phase = "startup"
    /\ \E model_exists \in BOOLEAN :
          IF model_exists
          THEN detector' = "loaded" /\ phase' = "serving"
          ELSE detector' = detector /\ phase' = "exited"
    /\ UNCHANGED <<endpoint_vars, service, manual_review_queue, clock, loop_owner,
                   pc, request, detection_result, response, review_item,
                   background_tasks, side_events, user_dir>>

InFlight == {u \in Users : pc[u] \notin {"idle", "sent"}}

\* The event loop runs one handler at a time: u's handler can take a step
\* when no other handler holds the loop.
LoopFree(u) == loop_owner \in {None, u}

\* The handler up to its await: the two boundary checks, then the
\* detection is handed to a worker thread.
ReceiveRequest(u, req) ==
    /\ service = "stateless"
    /\ phase = "serving"
    /\ LoopFree(u)
    /\ pc[u] \in {"idle", "sent"}
    /\ background_tasks[u] = <<>>
    /\ req.user_id = u
    /\ request' = [request EXCEPT ![u] = req]
    /\ IF detector = None
       THEN /\ response' = [response EXCEPT ![u] = NotInitializedResponse]
            /\ pc' = [pc EXCEPT ![u] = "sent"]
       ELSE IF NoImageSupplied(req)
       THEN /\ response' = [response EXCEPT ![u] = NoImageResponse]
            /\ pc' = [pc EXCEPT ![u] = "sent"]
       ELSE /\ response' = [response EXCEPT ![u] = NoResponse]
            /\ pc' = [pc EXCEPT ![u] = "front"]
    /\ detection_result' = [detection_result EXCEPT ![u] = InitialResult]
    /\ review_item' = [review_item EXCEPT ![u] = NoItem]
    /\ side_events' = [side_events EXCEPT ![u] = NoEvents]
    /\ UNCHANGED <<endpoint_vars, process_vars, manual_review_queue, clock, loop_owner,
                   background_tasks, user_dir>>

Receive(u) ==
    /\ clock + Cardinality(InFlight) < MaxQueue
    /\ \E req \in Requests : ReceiveRequest(u, req)

\* The worker thread on the front slot, given what the model does.
ThreadFrontOn(u, outcome) ==
    /\ pc[u] = "front"
    /\ detection_result' = [detection_result EXCEPT ![u] =
           ProcessFront(@, request[u].front_image, outcome,
                        request[u].confidence_threshold)]
    /\ side_events' = [side_events EXCEPT ![u].front =
           SideEvent(request[u].front_image, outcome)]
    /\ pc' = [pc EXCEPT ![u] = "back"]
    /\ UNCHANGED <<endpoint_vars, process_vars, manual_review_queue, clock, loop_owner, request,
                   response, review_item, background_tasks, user_dir>>

\* The worker thread: the front slot.
ThreadFront(u) == \E outcome \in InferenceOutcomes : ThreadFrontOn(u, outcome)

\* The worker thread on the back slot and the status decision, given what
\* the model does.
ThreadBackOn(u, outcome) ==
    /\ pc[u] = "back"
    /\ detection_result' = [detection_result EXCEPT ![u] =
           FinishDetection(@, request[u].back_image, outcome,
                           request[u].confidence_threshold)]
    /\ side_events' = [side_events EXCEPT ![u].back =
           SideEvent(request[u].back_image, outcome)]
    /\ pc' = [pc EXCEPT ![u] = "resume"]
    /\ UNCHANGED <<endpoint_vars, process_vars, manual_review_queue, clock, loop_owner, request,
                   response, review_item, background_tasks, user_dir>>

\* The worker thread: the back slot and the status decision.
ThreadBack(u) == \E outcome \in InferenceOutcomes : ThreadBackOn(u, outcome)

\* The handler after its await: the response, and the review item it
\* schedules as a background task.
Respond(u) ==
    /\ pc[u] = "resume"
    /\ LoopFree(u)
    /\ LET req == request[u]
           result == detection_result[u]
           reason == ReviewReason(req, result)
       IN  /\ response' = [response EXCEPT ![u] = HandlerResponse(req, result)]
           /\ IF reason = None
              THEN UNCHANGED <<clock, review_item, background_tasks>>
              ELSE LET item == ManualReviewItem(req, result, clock + 1, reason)
                   IN  /\ clock' = clock + 1
                       /\ review_item' = [review_item EXCEPT ![u] = item]
                       /\ background_tasks' =
                              [background_tasks EXCEPT ![u] = Append(@, item)]
    /\ pc' = [pc EXCEPT ![u] = "sent"]
    /\ UNCHANGED <<endpoint_vars, process_vars, manual_review_queue, loop_owner, request,
                   detection_result, side_events, user_dir>>

\* add_to_review_queue putting the item at the head of the list.
RunBackgroundTask_Prepend(u) ==
    /\ pc[u] = "sent"
    /\ LoopFree(u)
    /\ background_tasks[u] # <<>>
    /\ manual_review_queue' = <<Head(background_tasks[u])>> \o manual_review_queue
    /\ background_tasks' = [background_tasks EXCEPT ![u] = Tail(@)]
    /\ UNCHANGED <<endpoint_vars, process_vars, clock, loop_owner, pc, request,
                   detection_result, response, review_item, side_events, user_dir>>

\* add_to_review_queue writing back a list read before the other appends.
RunBackgroundTask_Overwrite(u) ==
    /\ pc[u] = "sent"
    /\ LoopFree(u)
    /\ background_tasks[u] # <<>>
    /\ manual_review_queue' = <<Head(background_tasks[u])>>
    /\ background_tasks' = [background_tasks EXCEPT ![u] = Tail(@)]
    /\ UNCHANGED <<endpoint_vars, process_vars, clock, loop_owner, pc, request,
                   detection_result, response, review_item, side_events, user_dir>>

\* The background task finishing without appending its item.
RunBackgroundTask_Drop(u) ==
    /\ pc[u] = "sent"
    /\ LoopFree(u)
    /\ background_tasks[u] # <<>>
    /\ manual_review_queue' = manual_review_queue
    /\ background_tasks' = [background_tasks EXCEPT ![u] = Tail(@)]
    /\ UNCHANGED <<endpoint_vars, process_vars, clock, loop_owner, pc, request,
                   detection_result, response, review_item, side_events, user_dir>>

\* add_to_review_queue, run after the response went out.
RunBackgroundTask(u) ==
    /\ pc[u] = "sent"
    /\ LoopFree(u)
    /\ background_tasks[u] # <<>>
    /\ manual_review_queue' = Append(manual_review_queue, Head(background_tasks[u]))
    /\ background_tasks' = [background_tasks EXCEPT ![u] = Tail(@)]
    /\ UNCHANGED <<endpoint_vars, process_vars, clock, loop_owner, pc, request, detection_result,
                   response, review_item, side_events, user_dir>>

\* ---- the file-based handler ----
\* Up to the first await: the boundary checks, then the download directory.
FileReceiveRequest(u, req) ==
    /\ service = "file"
    /\ phase = "serving"
    /\ LoopFree(u)
    /\ pc[u] \in {"idle", "sent"}
    /\ req.user_id = u
    /\ request' = [request EXCEPT ![u] = req]
    /\ IF detector = None
       THEN /\ response' = [response EXCEPT ![u] = NotInitializedResponse]
            /\ pc' = [pc EXCEPT ![u] = "sent"]
            /\ UNCHANGED user_dir
       ELSE IF NoImageSupplied(req)
       THEN /\ response' = [response EXCEPT ![u] = FileNoImageResponse]
            /\ pc' = [pc EXCEPT ![u] = "sent"]
            /\ UNCHANGED user_dir
       ELSE /\ response' = [response EXCEPT ![u] = NoResponse]
            /\ pc' = [pc EXCEPT ![u] = "dl_front"]
            /\ user_dir' = [user_dir EXCEPT ![u] = TRUE]
    /\ detection_result' = [detection_result EXCEPT ![u] = FileInitialResult]
    /\ side_events' = [side_events EXCEPT ![u] = NoEvents]
    /\ UNCHANGED <<endpoint_vars, process_vars, manual_review_queue, clock, loop_owner,
                   review_item, background_tasks>>

FileReceive(u) == \E req \in FileRequests : FileReceiveRequest(u, req)

\* The except clause answering, with no finally clause after it.
FileFail_KeepsDir(u) ==
    /\ response' = [response EXCEPT ![u] = InternalErrorResponse]
    /\ user_dir' = user_dir
    /\ pc' = [pc EXCEPT ![u] = "sent"]
    /\ loop_owner' = None

\* The handler leaving through its except and finally clauses.
FileFail(u) ==
    /\ response' = [response EXCEPT ![u] = InternalErrorResponse]
    /\ user_dir' = [user_dir EXCEPT ![u] = FALSE]
    /\ pc' = [pc EXCEPT ![u] = "sent"]
    /\ loop_owner' = None

\* await download_image for the front reference.
FileDownloadFront(u) ==
    /\ pc[u] = "dl_front"
    /\ LoopFree(u)
    /\ IF Truthy(request[u].front_image) /\ ~download_image(request[u].front_image)
       THEN FileFail(u)
       ELSE /\ pc' = [pc EXCEPT ![u] = "dl_back"]
            /\ UNCHANGED <<response, user_dir, loop_owner>>
    /\ UNCHANGED <<endpoint_vars, process_vars, manual_review_queue, clock, request,
                   detection_result, review_item, background_tasks, side_events>>

\* await download_image for the back reference; from here the handler runs
\* detect_cards on the event loop itself.
FileDownloadBack(u) ==
    /\ pc[u] = "dl_back"
    /\ LoopFree(u)
    /\ IF Truthy(request[u].back_image) /\ ~download_image(request[u].back_image)
       THEN FileFail(u)
       ELSE /\ pc' = [pc EXCEPT ![u] = "file_front"]
            /\ loop_owner' = u
            /\ UNCHANGED <<response, user_dir>>
    /\ UNCHANGED <<endpoint_vars, process_vars, manual_review_queue, clock, request,
                   detection_result, review_item, background_tasks, side_events>>

\* detect_cards on the front slot, given what the model does.
FileDetectFrontOn(u, outcome) ==
    /\ pc[u] = "file_front"
    /\ loop_owner = u
    /\ LET path == IF download_image(request[u].front_image)
                   THEN request[u].front_image ELSE None
       IN  /\ detection_result' = [detection_result EXCEPT ![u] =
                  FileProcessSide(@, path, user_dir[u], outcome,
                                  request[u].confidence_threshold, "front")]
           /\ side_events' = [side_events EXCEPT ![u].front =
                  FileSideEvent(path, user_dir[u], outcome)]
    /\ pc' = [pc EXCEPT ![u] = "file_back"]
    /\ UNCHANGED <<endpoint_vars, process_vars, manual_review_queue, clock, loop_owner, request,
                   response, review_item, background_tasks, user_dir>>

\* detect_cards, the front slot.
FileDetectFront(u) == \E outcome \in InferenceOutcomes : FileDetectFrontOn(u, outcome)

\* detect_cards on the back slot, given what the model does.
FileDetectBackOn(u, outcome) ==
    /\ pc[u] = "file_back"
    /\ loop_owner = u
    /\ LET path == IF download_image(request[u].back_image)
                   THEN request[u].back_image ELSE None
       IN  /\ detection_result' = [detection_result EXCEPT ![u] =
                  FileProcessSide(@, path, user_dir[u], outcome,
                                  request[u].confidence_threshold, "back")]
           /\ side_events' = [side_events EXCEPT ![u].back =
                  FileSideEvent(path, user_dir[u], outcome)]
    /\ pc' = [pc EXCEPT ![u] = "file_resume"]
    /\ UNCHANGED <<endpoint_vars, process_vars, manual_review_queue, clock, loop_owner, request,
                   response, review_item, background_tasks, user_dir>>

\* detect_cards, the back slot.
FileDetectBack(u) == \E outcome \in InferenceOutcomes : FileDetectBackOn(u, outcome)

\* The response, then the finally clause removing the download directory.
FileRespond(u) ==
    /\ pc[u] = "file_resume"
    /\ loop_owner = u
    /\ response' = [response EXCEPT ![u] =
           FileHandlerResponse(request[u], detection_result[u])]
    /\ user_dir' = [user_dir EXCEPT ![u] = FALSE]
    /\ pc' = [pc EXCEPT ![u] = "sent"]
    /\ loop_owner' = None
    /\ UNCHANGED <<endpoint_vars, process_vars, manual_review_queue, clock, request,
                   detection_result, review_item, background_tasks, side_events>>

Next ==
    \/ Startup
    \/ \E u \in SeqUsers : Receive(u)
    \/ \E u \in SeqUsers : ThreadFront(u)
    \/ \E u \in SeqUsers : ThreadBack(u)
    \/ \E u \in SeqUsers : Respond(u)
    \/ \E u \in SeqUsers : RunBackgroundTask(u)
    \/ \E u \in SeqUsers : FileReceive(u)
    \/ \E u \in SeqUsers : FileDownloadFront(u)
    \/ \E u \in SeqUsers : FileDownloadBack(u)
    \/ \E u \in SeqUsers : FileDetectFront(u)
    \/ \E u \in SeqUsers : FileDetectBack(u)
    \/ \E u \in SeqUsers : FileRespond(u)

Spec == Init /\ [][Next]_vars

\* ------------------------------------------------- the other endpoints
\* GET /review-queue.
get_review_queue ==
    /\ service = "stateless"
    /\ phase = "serving"
    /\ loop_owner = None
    /\ review_queue_response' =
           [called |-> TRUE, success |-> TRUE,
            count |-> Len(manual_review_queue), items |-> manual_review_queue]
    /\ UNCHANGED <<process_vars, manual_review_queue, clock, loop_owner, pc, request,
                   detection_result, response, review_item, background_tasks,
                   side_events, user_dir, health_response, classified, onnx_call>>

\* GET /health.
health_check ==
    /\ phase = "serving"
    /\ loop_owner = None
    /\ health_response' =
           IF detector # None
           THEN [status_code |-> 200, success |-> TRUE,
                 detector_status |-> "initialized"]
           ELSE [status_code |-> 503, success |-> FALSE,
                 detector_status |-> "not_initialized"]
    /\ UNCHANGED <<process_vars, manual_review_queue, clock, loop_owner, pc, request,
                   detection_result, response, review_item, background_tasks,
                   side_events, user_dir, review_queue_response, classified,
                   onnx_call>>

\* ------------------------------------------------ concurrent requests
\* Two clients whose requests interleave, on a small input domain: the front
\* image shows a front card or nothing, the back image a back card, and two
\* different back images decode.  A request is approved (both detected),
\* rejected (no front card) or, with force_upload, queued for review.
ConcRequests ==
    [user_id : Users, front_image : {"front_b64"},
     back_image : {"back_b64", "back_alt_b64"},
     confidence_threshold : {CONFIDENCE_THRESHOLD}, force_upload : BOOLEAN]

ConcFrontOutcomes ==
    {[raised |-> FALSE, boxes |-> <<>>],
     [raised |-> FALSE, boxes |-> <<[class |-> "aadhar_front", confidence |-> 92]>>]}

ConcBackOutcomes ==
    {[raised |-> FALSE, boxes |-> <<[class |-> "aadhar_back", confidence |-> 88]>>]}

ConcFileRequests ==
    [user_id : Users, front_image : {"front_url"}, back_image : {None, "back_url"},
     confidence_threshold : {CONFIDENCE_THRESHOLD}, force_upload : {FALSE}]

ConcReceive(u) ==
    /\ clock + Cardinality(InFlight) <= MaxQueue
    /\ \E req \in ConcRequests : ReceiveRequest(u, req)

ConcThreadFront(u) == \E outcome \in ConcFrontOutcomes : ThreadFrontOn(u, outcome)

ConcThreadBack(u) == \E outcome \in ConcBackOutcomes : ThreadBackOn(u, outcome)

ConcFileReceive(u) == \E req \in ConcFileRequests : FileReceiveRequest(u, req)

ConcFileDetectFront(u) ==
    \E outcome \in ConcFrontOutcomes : FileDetectFrontOn(u, outcome)

ConcFileDetectBack(u) ==
    \E outcome \in ConcBackOutcomes : FileDetectBackOn(u, outcome)

ConcNext ==
    \/ Startup
    \/ get_review_queue
    \/ health_check
    \/ \E u \in Users : ConcReceive(u)
    \/ \E u \in Users : ConcThreadFront(u)
    \/ \E u \in Users : ConcThreadBack(u)
    \/ \E u \in Users : Respond(u)
    \/ \E u \in Users : RunBackgroundTask(u)
    \/ \E u \in Users : ConcFileReceive(u)
    \/ \E u \in Users : FileDownloadFront(u)
    \/ \E u \in Users : FileDownloadBack(u)
    \/ \E u \in Users : ConcFileDetectFront(u)
    \/ \E u \in Users : ConcFileDetectBack(u)
    \/ \E u \in Users : FileRespond(u)

ConcSpec == Init /\ [][ConcNext]_vars

\* The framework runs the tasks of a BackgroundTasks object once the
\* response has gone out: a scheduled task does not wait for ever.
FairConcSpec == ConcSpec /\ \A u \in Users : WF_vars(RunBackgroundTask(u))

\* ---------------------------------------------------- one image, one slot
\* A request carrying one image, taken from detection to response in one
\* step, with what the model returned for the image kept beside the result.
ClassifySide ==
    /\ service = "stateless"
    /\ phase = "serving"
    /\ detector # None
    /\ classified = NotClassified
    /\ \E req \in Requests, outcome \in InferenceOutcomes :
          /\ req.user_id \in SeqUsers
          /\ Truthy(req.front_image) # Truthy(req.back_image)
          /\ LET result == detect_cards_from_base64(req.front_image, req.back_image,
                               outcome, outcome, req.confidence_threshold)
             IN  classified' =
                     [slot |-> IF Truthy(req.front_image) THEN "front" ELSE "back",
                      request |-> req, outcome |-> outcome, result |-> result,
                      response |-> HandlerResponse(req, result)]
    /\ UNCHANGED <<process_vars, manual_review_queue, clock, loop_owner, pc, request,
                   detection_result, response, review_item, background_tasks,
                   side_events, user_dir, review_queue_response, health_response,
                   onnx_call>>

FileClassifySide ==
    /\ service = "file"
    /\ phase = "serving"
    /\ detector # None
    /\ classified = NotClassified
    /\ \E req \in FileRequests, outcome \in InferenceOutcomes :
          /\ req.user_id \in SeqUsers
          /\ Truthy(req.front_image) # Truthy(req.back_image)
          /\ LET slot == IF Truthy(req.front_image) THEN "front" ELSE "back"
                 url == IF slot = "front" THEN req.front_image ELSE req.back_image
                 result == FileProcessSide(FileInitialResult, url, TRUE, outcome,
                                           req.confidence_threshold, slot)
             IN  classified' =
                     IF download_image(url)
                     THEN [slot |-> slot, request |-> req, outcome |-> outcome,
                           result |-> result,
                           response |-> FileHandlerResponse(req, result)]
                     ELSE [slot |-> slot, request |-> req, outcome |-> outcome,
                           result |-> FileInitialResult,
                           response |-> InternalErrorResponse]
    /\ UNCHANGED <<process_vars, manual_review_queue, clock, loop_owner, pc, request,
                   detection_result, response, review_item, background_tasks,
                   side_events, user_dir, review_queue_response, health_response,
                   onnx_call>>

ClassifyNext ==
    \/ Startup
    \/ ClassifySide
    \/ FileClassifySide

ClassifySpec == Init /\ [][ClassifyNext]_vars

\* ------------------------------------------------------ the tensor detector
\* One run of AadhaarDetector.detect on what session.run handed back; the
\* detector is a program of its own and needs no serving process.
OnnxDetect ==
    /\ onnx_call = NoOnnxCall
    /\ \E image \in ImageShapes :
          \/ onnx_call' = [called |-> TRUE, outputs |-> <<>>, image |-> image,
                           returned |-> detect(<<>>, image)]
          \/ \E k \in ClassChannelCounts, n \in 0..MaxDet :
                \E outputs \in OnnxOutputsOf(k, n) :
                    onnx_call' = [called |-> TRUE, outputs |-> outputs, image |-> image,
                                  returned |-> detect(outputs, image)]
    /\ UNCHANGED <<process_vars, manual_review_queue, clock, loop_owner, pc, request,
                   detection_result, response, review_item, background_tasks,
                   side_events, user_dir, review_queue_response, health_response,
                   classified>>

TensorNext == OnnxDetect

TensorSpec == Init /\ [][TensorNext]_vars

\* ------------------------------------------------------------ observations
Stateless == service = "stateless"

\* The /detect handler of u has returned a response.
Answered(u) == pc[u] = "sent"

\* ... and detection ran for it (not the 503, the no-image 400 or the 500).
Decided(u) == Answered(u) /\ "data" \in response[u].keys

FrontSupplied(u) == Truthy(request[u].front_image)
BackSupplied(u) == Truthy(request[u].back_image)
FraudFlag(u) == detection_result[u].print_aadhar_detected

\* The status the response carries: top-level on the force path, under data
\* otherwise, None when the body has no status.
ReturnedStatus(u) ==
    IF "status" \in response[u].keys THEN response[u].status
    ELSE IF "status" \in response[u].data_keys THEN response[u].data.status
    ELSE None

CountIn(seq, x) == Cardinality({i \in DOMAIN seq : seq[i] = x})

\* Review entries scheduled or queued for u's current request.
EntriesFor(u) ==
    IF review_item[u] = NoItem THEN 0
    ELSE CountIn(background_tasks[u], review_item[u])
            + CountIn(manual_review_queue, review_item[u])

OnForcePath(u) ==
    /\ request[u].force_upload
    /\ ~(detection_result[u].front_detected /\ detection_result[u].back_detected)

\* ------------------------------------------------------------------ claims

\* C1: fraud precedence.  Whenever a print_aadhar detection set the fraud flag
\* for a request, the response is the security-violation response (400,
\* success false, print_aadhar_detected true), whatever force_upload says,
\* no review item is scheduled, and the status the stateless service decided
\* is rejected.
C1_FraudPrecedence ==
    \A u \in Users :
        (Answered(u) /\ FraudFlag(u)) =>
            /\ Stateless => detection_result[u].status = REJECTED
            /\ response[u].status_code = 400
            /\ ~response[u].success
            /\ "print_aadhar_detected" \in response[u].data_keys
            /\ response[u].data.print_aadhar_detected
            /\ ReturnedStatus(u) \notin {PENDING_REVIEW, APPROVED}
            /\ EntriesFor(u) = 0
            /\ background_tasks[u] = <<>>

C1_Witness ==
    \E u \in Users :
        /\ Answered(u) /\ FraudFlag(u)
        /\ request[u].force_upload
        /\ detection_result[u].front_detected

\* C2: both sides supplied and detected, no fraud flag: the returned status
\* is pending_review when either confidence is below the low-confidence
\* threshold and approved otherwise.
C2_BothDetectedStatus ==
    \A u \in Users :
        (/\ Stateless /\ Decided(u) /\ ~FraudFlag(u)
         /\ FrontSupplied(u) /\ BackSupplied(u)
         /\ response[u].data.front_detected /\ response[u].data.back_detected) =>
            ReturnedStatus(u) =
                IF \/ response[u].data.front_confidence < LOW_CONFIDENCE_THRESHOLD
                   \/ response[u].data.back_confidence < LOW_CONFIDENCE_THRESHOLD
                THEN PENDING_REVIEW
                ELSE APPROVED

\* Scenario A: front 0.92, back 0.88.
C2_Witness ==
    \E u \in Users :
        /\ Decided(u)
        /\ response[u].data.front_detected /\ response[u].data.back_detected
        /\ response[u].data.front_confidence = 92
        /\ response[u].data.back_confidence = 88
        /\ ReturnedStatus(u) = APPROVED

\* C3: force bypass.  A request past the boundary checks with force_upload
\* set, no fraud flag and not both sides detected is answered pending_review
\* whatever the confidences, and exactly one review entry is scheduled for
\* it, with the force-upload reason.
C3_ForceBypass ==
    \A u \in Users :
        (Decided(u) /\ ~FraudFlag(u) /\ OnForcePath(u)) =>
            /\ ReturnedStatus(u) = PENDING_REVIEW
            /\ review_item[u].reason = FORCE_UPLOAD_REASON
            /\ review_item[u].user_id = u
            /\ EntriesFor(u) = 1

C3_Witness ==
    \E u \in Users :
        /\ Decided(u) /\ ~FraudFlag(u) /\ request[u].force_upload
        /\ ~detection_result[u].front_detected
        /\ ~detection_result[u].back_detected
        /\ ReturnedStatus(u) = PENDING_REVIEW
        /\ CountIn(manual_review_queue, review_item[u]) = 1

\* C4 as stated: every forced request without a fraud flag is answered
\* pending_review, never approved.
C4_ForcedNeverApproved ==
    \A u \in Users :
        (Decided(u) /\ ~FraudFlag(u) /\ request[u].force_upload) =>
            ReturnedStatus(u) = PENDING_REVIEW

\* C4 as amended: a forced request without a fraud flag is never rejected; it
\* is approved exactly when both sides are detected with both confidences at
\* or above the low-confidence threshold, and pending_review otherwise.
C4_ForcedNeverRejected ==
    \A u \in Users :
        (Decided(u) /\ ~FraudFlag(u) /\ request[u].force_upload) =>
            /\ ReturnedStatus(u) \in {PENDING_REVIEW, APPROVED}
            /\ ReturnedStatus(u) = APPROVED <=>
                  /\ response[u].data.front_detected
                  /\ response[u].data.back_detected
                  /\ response[u].data.front_confidence >= LOW_CONFIDENCE_THRESHOLD
                  /\ response[u].data.back_confidence >= LOW_CONFIDENCE_THRESHOLD

C4_Witness ==
    \E u \in Users :
        /\ Decided(u) /\ ~FraudFlag(u) /\ request[u].force_upload
        /\ ReturnedStatus(u) = APPROVED

\* C5: exactly one side supplied, that side detected, no fraud flag, no
\* force_upload: pending_review when its confidence is below the
\* low-confidence threshold, and otherwise a status that is not rejected.
C5_SingleSideStatus ==
    \A u \in Users :
        (/\ Stateless /\ Decided(u) /\ ~FraudFlag(u) /\ ~request[u].force_upload
         /\ FrontSupplied(u) # BackSupplied(u)
         /\ IF FrontSupplied(u) THEN response[u].data.front_detected
                                ELSE response[u].data.back_detected) =>
            LET conf == IF FrontSupplied(u) THEN response[u].data.front_confidence
                                            ELSE response[u].data.back_confidence
            IN  IF conf < LOW_CONFIDENCE_THRESHOLD
                THEN ReturnedStatus(u) = PENDING_REVIEW
                ELSE ReturnedStatus(u) # REJECTED

\* C6: nothing detected, no fraud flag, no force_upload: the message names
\* exactly the supplied sides that were not detected, both confidences are
\* 0.0, and the status the stateless service reports is rejected.
C6_NothingDetected ==
    \A u \in Users :
        (/\ Decided(u) /\ ~FraudFlag(u) /\ ~request[u].force_upload
         /\ ~response[u].data.front_detected /\ ~response[u].data.back_detected) =>
            /\ Stateless => ReturnedStatus(u) = REJECTED
            /\ ~Stateless => ReturnedStatus(u) = None
            /\ response[u].data.front_confidence = 0
            /\ response[u].data.back_confidence = 0
            /\ ~response[u].detected
            /\ response[u].message =
                  IF FrontSupplied(u) /\ BackSupplied(u)
                  THEN "Could not detect Aadhaar card(s): front, back."
                  ELSE IF FrontSupplied(u)
                  THEN "Could not detect Aadhaar card(s): front."
                  ELSE "Could not detect Aadhaar card(s): back."

\* Scenario D: only the front image, not detected.
C6_Witness ==
    \E u \in Users :
        /\ Decided(u) /\ ~FraudFlag(u) /\ ~request[u].force_upload
        /\ FrontSupplied(u) /\ ~BackSupplied(u)
        /\ ~response[u].data.front_detected
        /\ response[u].message = "Could not detect Aadhaar card(s): front."
        /\ response[u].data.back_confidence = 0
        /\ ReturnedStatus(u) = REJECTED

ScenarioB_Front ==
    [raised |-> FALSE, boxes |-> <<[class |-> "aadhar_front", confidence |-> 92]>>]
ScenarioB_Back ==
    [raised |-> FALSE, boxes |-> <<[class |-> "aadhar_back", confidence |-> 8]>>]
ScenarioB_Result ==
    detect_cards_from_base64("front_b64", "back_b64", ScenarioB_Front,
                             ScenarioB_Back, CONFIDENCE_THRESHOLD)

C8_ScenarioB ==
    \A u \in Users :
        (/\ Stateless /\ Answered(u)
         /\ request[u].front_image = "front_b64"
         /\ request[u].back_image = "back_b64"
         /\ request[u].confidence_threshold = CONFIDENCE_THRESHOLD
         /\ ~request[u].force_upload
         /\ detection_result[u] = ScenarioB_Result) =>
            /\ ReturnedStatus(u) = PENDING_REVIEW
            /\ review_item[u].reason = LOW_CONFIDENCE_REASON
            /\ EntriesFor(u) = 1

\* C9: fail closed.  The status is rejected until the detection thread has
\* decided it; a request with a side that failed to decode or whose
\* inference raised is never approved; and approved is reached only with
\* both sides decoded, classified and detected.
SideFailed(u) ==
    \/ side_events[u].front \in {"decode_failed", "inference_raised"}
    \/ side_events[u].back \in {"decode_failed", "inference_raised"}

C9_FailClosed ==
    \A u \in Users :
        /\ pc[u] \in {"front", "back"} => detection_result[u].status = REJECTED
        /\ SideFailed(u) =>
              /\ detection_result[u].status # APPROVED
              /\ ReturnedStatus(u) # APPROVED
        /\ (detection_result[u].status = APPROVED \/ ReturnedStatus(u) = APPROVED) =>
              /\ side_events[u].front = "classified"
              /\ side_events[u].back = "classified"
              /\ detection_result[u].front_detected
              /\ detection_result[u].back_detected

\* Inference raised on the front image while the back card is detected high.
C9_Witness ==
    \E u \in Users :
        /\ Decided(u)
        /\ side_events[u].front = "inference_raised"
        /\ response[u].data.back_detected
        /\ response[u].data.back_confidence = 92
        /\ ReturnedStatus(u) = REJECTED

\* C10: a side reported detected carries a confidence at or above the
\* request's confidence_threshold.
C10_DetectedAtLeastThreshold ==
    \A u \in Users :
        /\ detection_result[u].front_detected =>
              detection_result[u].front_confidence >= request[u].confidence_threshold
        /\ detection_result[u].back_detected =>
              detection_result[u].back_confidence >= request[u].confidence_threshold
        /\ response[u].data.front_detected =>
              response[u].data.front_confidence >= request[u].confidence_threshold
        /\ response[u].data.back_detected =>
              response[u].data.back_confidence >= request[u].confidence_threshold

\* A detection exactly at a lowered threshold.
C10_Witness ==
    \E u \in Users :
        /\ Decided(u)
        /\ request[u].confidence_threshold = 8
        /\ response[u].data.front_detected
        /\ response[u].data.front_confidence = 8

\* ------------------------------------- observations of a single-image run
Classified == classified.slot # None

\* The label the slot expects.
SlotLabel == IF classified.slot = "front" THEN "aadhar_front" ELSE "aadhar_back"
OtherLabel == IF classified.slot = "front" THEN "aadhar_back" ELSE "aadhar_front"

SlotImage ==
    IF classified.slot = "front" THEN classified.request.front_image
    ELSE classified.request.back_image

\* The image reached the model: it decoded, or it was fetched.
ImageRead ==
    IF Stateless THEN decode_base64_image(SlotImage) # None
    ELSE download_image(SlotImage)

\* The detections the model returned for the image.
SeenBoxes ==
    IF ImageRead /\ ~classified.outcome.raised THEN classified.outcome.boxes
    ELSE <<>>

\* Confidences of the detections of a label at or above the request's
\* threshold.
AtThreshold(label) ==
    {SeenBoxes[i].confidence : i \in
        {j \in DOMAIN SeenBoxes :
            /\ SeenBoxes[j].class = label
            /\ SeenBoxes[j].confidence >= classified.request.confidence_threshold}}

SetMax(S) == CHOOSE x \in S : \A y \in S : y <= x

SlotDetected ==
    IF classified.slot = "front" THEN classified.result.front_detected
    ELSE classified.result.back_detected

SlotConfidence ==
    IF classified.slot = "front" THEN classified.result.front_confidence
    ELSE classified.result.back_confidence

\* C11: a side that is not detected has confidence 0.0, in the detection
\* result and in the response data that reports it, also when the image failed
\* to decode, inference raised, or the image's best detection carries the
\* other slot's label.
C11_UndetectedZero ==
    Classified =>
        /\ ~classified.result.front_detected => classified.result.front_confidence = 0
        /\ ~classified.result.back_detected => classified.result.back_confidence = 0
        /\ "front_confidence" \in classified.response.data_keys =>
              /\ ~classified.response.data.front_detected =>
                    classified.response.data.front_confidence = 0
              /\ ~classified.response.data.back_detected =>
                    classified.response.data.back_confidence = 0

\* A front image whose front-label box at 0.88 is beaten by a back-label box
\* at 0.92: the front side is reported undetected with confidence 0.
C11_Witness ==
    /\ Classified /\ Stateless /\ classified.slot = "front"
    /\ 88 \in AtThreshold(SlotLabel)
    /\ 92 \in AtThreshold(OtherLabel)
    /\ "front_confidence" \in classified.response.data_keys
    /\ ~classified.response.data.front_detected
    /\ classified.response.data.front_confidence = 0

\* C12: the confidence of a detected side is the maximum confidence among
\* the detections at or above the threshold that carry the slot's label,
\* whatever the order the model returned them in.
C12_MaxConfidence ==
    (Classified /\ SlotDetected) =>
        /\ AtThreshold(SlotLabel) # {}
        /\ SlotConfidence = SetMax(AtThreshold(SlotLabel))

\* C13: a slot is detected exactly when some detection at or above the
\* threshold carries the slot's label, whatever detections of the other
\* slot's label the image holds.
C13_DetectedIffLabel ==
    Classified => (SlotDetected <=> AtThreshold(SlotLabel) # {})

\* C14: the fraud flag is set exactly when some print_aadhar detection is at
\* or above the threshold, whether or not a card label is detected in the
\* same image.
C14_FraudAtThreshold ==
    Classified =>
        (classified.result.print_aadhar_detected <=> AtThreshold("print_aadhar") # {})

\* --------------------------------------- observations of concurrent requests
\* u's and v's decisions were taken on the same inputs: the same sides
\* supplied, the same per-side classification, the same threshold and the
\* same force_upload flag.
SameDecisionInputs(u, v) ==
    /\ FrontSupplied(u) = FrontSupplied(v)
    /\ BackSupplied(u) = BackSupplied(v)
    /\ detection_result[u].front_detected = detection_result[v].front_detected
    /\ detection_result[u].back_detected = detection_result[v].back_detected
    /\ detection_result[u].front_confidence = detection_result[v].front_confidence
    /\ detection_result[u].back_confidence = detection_result[v].back_confidence
    /\ detection_result[u].print_aadhar_detected
          = detection_result[v].print_aadhar_detected
    /\ request[u].confidence_threshold = request[v].confidence_threshold
    /\ request[u].force_upload = request[v].force_upload

\* C15: two decisions taken on the same inputs carry the same status,
\* message, detected and both_detected, whatever was processed before and
\* whatever the review queue holds.
C15_Deterministic ==
    \A u, v \in Users :
        (Decided(u) /\ Decided(v) /\ SameDecisionInputs(u, v)) =>
            /\ ReturnedStatus(u) = ReturnedStatus(v)
            /\ response[u].message = response[v].message
            /\ response[u].detected = response[v].detected
            /\ response[u].data.both_detected = response[v].data.both_detected

IsPrefix(s, t) == Len(s) <= Len(t) /\ SubSeq(t, 1, Len(s)) = s

\* C16: the review queue is append-only and in insertion order: every step
\* leaves the queue as it was or extends it at the tail, so at any time the
\* queue extends the queue of every earlier state; and a step that returns a
\* review-queue listing returns every entry, in queue order, with count the
\* number of entries.
C16_AppendOnly ==
    [][/\ IsPrefix(manual_review_queue, manual_review_queue')
       /\ Len(manual_review_queue') <= Len(manual_review_queue) + 1
       /\ review_queue_response' # review_queue_response =>
             /\ review_queue_response'.success
             /\ review_queue_response'.items = manual_review_queue'
             /\ review_queue_response'.count = Len(manual_review_queue')]_vars

\* Two entries queued, and a listing that returned both in order.
C16_Witness ==
    /\ Len(manual_review_queue) = 2
    /\ manual_review_queue[1].timestamp # manual_review_queue[2].timestamp
    /\ review_queue_response.called
    /\ review_queue_response.count = 2
    /\ review_queue_response.items = manual_review_queue

\* Items scheduled as background tasks and not yet appended.
PendingTasks == UNION {{<<u, i>> : i \in DOMAIN background_tasks[u]} : u \in Users}

\* Entries, queued or scheduled, that carry timestamp t.
EntriesAt(t) ==
    Cardinality({i \in DOMAIN manual_review_queue :
                    manual_review_queue[i].timestamp = t})
        + Cardinality({p \in PendingTasks :
                          background_tasks[p[1]][p[2]].timestamp = t})

\* C17: no append is lost or half-written under any interleaving.  The clock
\* counts the requests routed to manual review; each of them has exactly one
\* entry, queued or still scheduled, every queued entry is a complete item,
\* and once a user's background task has run, the queue holds the entry of
\* that user's request exactly when the request was answered pending_review.
C17_NoLostAppend ==
    /\ Len(manual_review_queue) + Cardinality(PendingTasks) = clock
    /\ \A t \in 1..clock : EntriesAt(t) = 1
    /\ \A i \in DOMAIN manual_review_queue :
          /\ manual_review_queue[i].user_id \in Users
          /\ manual_review_queue[i].timestamp \in 1..clock
          /\ manual_review_queue[i].reason \in {FORCE_UPLOAD_REASON, LOW_CONFIDENCE_REASON}
    /\ \A u \in Users :
          (Answered(u) /\ background_tasks[u] = <<>>) =>
              IF ReturnedStatus(u) = PENDING_REVIEW
              THEN /\ review_item[u].user_id = u
                   /\ CountIn(manual_review_queue, review_item[u]) = 1
              ELSE review_item[u] = NoItem

\* Two requests in flight together, their items appended in the order
\* opposite to the one they were created in, and both kept.
C17_Witness ==
    /\ PendingTasks = {}
    /\ Len(manual_review_queue) = 2
    /\ manual_review_queue[1].user_id # manual_review_queue[2].user_id
    /\ manual_review_queue[1].timestamp > manual_review_queue[2].timestamp
    /\ \A u \in Users : Answered(u) /\ ReturnedStatus(u) = PENDING_REVIEW

\* A supplied side of u's request that could not be fetched, decoded or
\* inferred.
FailedSides(u) ==
    {slot \in {"front", "back"} :
        LET image == IF slot = "front" THEN request[u].front_image
                     ELSE request[u].back_image
        IN  \/ side_events[u][slot] \in {"decode_failed", "inference_raised"}
            \/ ~Stateless /\ Truthy(image) /\ ~download_image(image)}

Elements(seq) == {seq[i] : i \in DOMAIN seq}

\* C18: partial-failure isolation.  A request without fraud flag and without
\* force_upload, one of whose supplied sides could not be fetched, decoded or
\* inferred, is not answered with a request-level error: the response carries
\* the detection data, the details of the failed side hold an error entry,
\* and the other side's detected flag and confidence are those the detection
\* computed.
C18_PartialFailureIsolated ==
    \A u \in Users :
        (/\ Answered(u) /\ FailedSides(u) # {}
         /\ ~FraudFlag(u) /\ ~request[u].force_upload) =>
            /\ response[u].status_code = 200
            /\ "details" \in response[u].data_keys
            /\ \A slot \in FailedSides(u) :
                  DecodeError \in Elements(response[u].data.details[slot])
            /\ response[u].data.front_detected = detection_result[u].front_detected
            /\ response[u].data.back_detected = detection_result[u].back_detected
            /\ response[u].data.front_confidence = detection_result[u].front_confidence
            /\ response[u].data.back_confidence = detection_result[u].back_confidence

\* C19: a request with neither image is answered 400 with success false at
\* the boundary, also with force_upload set: the handler goes straight to its
\* response, no side is processed, no download directory is created and no
\* review item is created or scheduled.
C19_NoImageRejected ==
    \A u \in Users :
        (pc[u] # "idle" /\ ~FrontSupplied(u) /\ ~BackSupplied(u)) =>
            /\ pc[u] = "sent"
            /\ response[u].status_code = 400
            /\ response[u].keys = {"success", "message"}
            /\ ~response[u].success
            /\ side_events[u] = NoEvents
            /\ ~detection_result[u].front_detected
            /\ ~detection_result[u].back_detected
            /\ detection_result[u].details = [front |-> <<>>, back |-> <<>>]
            /\ ~user_dir[u]
            /\ review_item[u] = NoItem
            /\ background_tasks[u] = <<>>
            /\ EntriesFor(u) = 0

\* A forced request with no image, answered 400.
C19_Witness ==
    \E u \in Users :
        /\ Answered(u)
        /\ ~FrontSupplied(u) /\ ~BackSupplied(u)
        /\ request[u].force_upload
        /\ response[u].status_code = 400
        /\ manual_review_queue = <<>>

\* u's request is inside model inference.
InInference(u) == pc[u] \in {"front", "back", "file_front", "file_back"}

\* C20: inference runs off the event loop: while a request is inside
\* inference the loop is free, so the handler of another request can take
\* its next step and /health can be served.
C20_InferenceOffLoop ==
    \A u \in Users :
        InInference(u) =>
            /\ \A v \in Users \ {u} : LoopFree(v)
            /\ ENABLED health_check

\* ------------------------------------------------------------------ C21
\* The handler of the file-based service is between the creation of its
\* download directory and its return.
FileInHandler(u) == pc[u] \in {"dl_front", "dl_back", "file_front", "file_back", "file_resume"}

\* C21: in the file-based service the download directory of a request
\* exists only while its handler runs: once the handler has returned
\* (200 approved or rejected, 400 fraud, 500 after a failed download of
\* either side, or after an inference that raised) the directory is gone.
C21_TempDirRemoved ==
    \A u \in Users :
        /\ user_dir[u] => service = "file" /\ FileInHandler(u)
        /\ Answered(u) => ~user_dir[u]

\* A download failed after the directory was made, the handler answered
\* 500, and the directory is gone.
C21_Witness ==
    \E u \in Users :
        /\ service = "file"
        /\ Answered(u)
        /\ response[u].status_code = 500
        /\ Truthy(request[u].front_image)
        /\ ~download_image(request[u].front_image)
        /\ ~user_dir[u]

\* ------------------------------------------------------------------ C22
\* C22: the stateless service never runs a detection with the
\* low-confidence threshold above the confidence threshold in force for
\* the request, the threshold the request itself carries included.
C22_ThresholdsConsistent ==
    \A u \in Users :
        Stateless /\ pc[u] \in {"front", "back", "resume"}
            => LOW_CONFIDENCE_THRESHOLD <= request[u].confidence_threshold

\* ------------------------------------------------------------------ C23
\* What holds of the detector in every state.
DetectorGate ==
    /\ phase = "serving" <=> detector # None
    /\ phase # "serving" =>
          /\ \A u \in Users : pc[u] = "idle" /\ response[u] = NoResponse
          /\ health_response = NoHealth
          /\ manual_review_queue = <<>>
    /\ \A u \in Users :
          /\ InInference(u) => detector # None
          /\ Answered(u) /\ response[u].status_code = 503 =>
                detector = None /\ background_tasks[u] = <<>>
    /\ health_response # NoHealth =>
          IF detector # None
          THEN /\ health_response.status_code = 200
               /\ health_response.detector_status = "initialized"
          ELSE /\ health_response.status_code = 503
               /\ health_response.detector_status = "not_initialized"

\* What holds of every step: the detector is set once, by the startup, and
\* a 503 of /detect leaves the review queue and the scheduled tasks alone.
DetectorGateStep ==
    /\ detector' # detector => phase = "startup" /\ detector = None
    /\ phase = "exited" => phase' = "exited"
    /\ \A u \in Users :
          response'[u] # response[u] /\ response'[u].status_code = 503 =>
              /\ detector = None
              /\ UNCHANGED <<manual_review_queue, background_tasks, detection_result>>

\* C23: the detector is loaded once, at startup, and a process whose
\* model is missing exits and serves nothing; /detect is inside inference
\* only with a detector and answers 503, the review queue untouched,
\* without one; /health answers 200 'initialized' exactly when the detector
\* is there and 503 'not_initialized' otherwise.
C23_DetectorGate == []DetectorGate /\ [][DetectorGateStep]_vars

\* A request is inside inference, the detector is loaded and /health has
\* answered 200 'initialized' meanwhile.
C23_Witness ==
    \E u \in Users :
        /\ InInference(u)
        /\ detector = "loaded"
        /\ health_response.status_code = 200
        /\ health_response.detector_status = "initialized"

\* The model was missing and the process has exited without serving.
C23_ExitedWitness ==
    /\ phase = "exited"
    /\ detector = None
    /\ \A u \in Users : pc[u] = "idle"

\* ------------------------------------------------------------------ C24
\* The message strings of the two /detect handlers.
MessageStrings ==
    {"Detector not initialized",
     "At least one image (front_image or back_image) is required.",
     "At least one image URL (passport_first or passport_old) is required.",
     "Print Aadhaar detected - security violation",
     "Document submitted for manual review",
     "Both Aadhaar cards detected successfully.",
     "Aadhaar front card detected successfully.",
     "Aadhaar back card detected successfully.",
     "Could not detect Aadhaar card(s): front.",
     "Could not detect Aadhaar card(s): back.",
     "Could not detect Aadhaar card(s): front, back.",
     "Internal server error"}

\* The message that the supplied sides and the detected sides of u's
\* response call for.
MessageBySides(u) ==
    LET front_ok == response[u].data.front_detected
        back_ok == response[u].data.back_detected
    IN  IF front_ok /\ back_ok THEN "Both Aadhaar cards detected successfully."
        ELSE IF front_ok THEN "Aadhaar front card detected successfully."
        ELSE IF back_ok THEN "Aadhaar back card detected successfully."
        ELSE IF FrontSupplied(u) /\ BackSupplied(u)
        THEN "Could not detect Aadhaar card(s): front, back."
        ELSE IF FrontSupplied(u) THEN "Could not detect Aadhaar card(s): front."
        ELSE "Could not detect Aadhaar card(s): back."

\* C24: the message of every /detect response is one of a fixed set of
\* strings, and without the fraud flag and off the force path it is the one
\* that the supplied sides and the detected sides call for: both detected,
\* front only, back only, or the supplied sides that were not detected.
C24_MessageClosedSet ==
    \A u \in Users :
        Answered(u) =>
            /\ response[u].message \in MessageStrings
            /\ Decided(u) /\ ~FraudFlag(u) /\ ~OnForcePath(u) =>
                  response[u].message = MessageBySides(u)

\* Both sides were supplied, neither was detected, and the message lists
\* the two.
C24_Witness ==
    \E u \in Users :
        /\ Decided(u) /\ ~FraudFlag(u) /\ ~OnForcePath(u)
        /\ FrontSupplied(u) /\ BackSupplied(u)
        /\ ~response[u].data.front_detected /\ ~response[u].data.back_detected
        /\ response[u].message = "Could not detect Aadhaar card(s): front, back."

\* ------------------------------------------------------------------ C25
\* The tensor detector ran on one tensor with the class channels it reads.
OnnxWellFormed ==
    /\ onnx_call.called
    /\ Len(onnx_call.outputs) = 1
    /\ onnx_call.outputs[1].channels = 4 + Len(CLASS_NAMES)

OnnxColumns == onnx_call.outputs[1].columns

\* The highest class score of column i, and the first class that has it.
ColumnScore(i) == SetMax({OnnxColumns[i].scores[c] : c \in 1..Len(CLASS_NAMES)})
ColumnLabel(i) ==
    CHOOSE c \in 1..Len(CLASS_NAMES) :
        /\ OnnxColumns[i].scores[c] = ColumnScore(i)
        /\ \A d \in 1..(c - 1) : OnnxColumns[i].scores[d] < ColumnScore(i)

\* The columns whose score exceeds the detector's threshold.
OverThreshold == {i \in DOMAIN OnnxColumns : ColumnScore(i) > ONNX_CONFIDENCE_THRESHOLD}

\* The earliest column with the highest score.
BestColumn ==
    CHOOSE i \in OverThreshold :
        /\ \A j \in OverThreshold : ColumnScore(j) <= ColumnScore(i)
        /\ \A j \in OverThreshold : j < i => ColumnScore(j) < ColumnScore(i)

C25_NoneWitness ==
    /\ OnnxWellFormed
    /\ Len(OnnxColumns) > 0
    /\ OverThreshold = {}
    /\ ~onnx_call.returned.value.detected

\* ------------------------------------------------------------------ C26
\* session.run handed back no output, or a tensor whose channel count is
\* not four plus the number of classes.
OnnxMalformed ==
    /\ onnx_call.called
    /\ \/ Len(onnx_call.outputs) = 0
       \/ onnx_call.outputs[1].channels # 4 + Len(CLASS_NAMES)

\* C26: the tensor detector answers a result with no output, or a tensor
\* whose channel count is not 4 + num_classes, with a MalformedOutputError
\* for that call, and returns no detection for it.
C26_MalformedRejected ==
    OnnxMalformed => onnx_call.returned.raised = "MalformedOutputError"

\* ------------------------------------------------------------------ C27
\* u's request keeps the confidence threshold at or above the
\* low-confidence threshold.
ThresholdCoversLow(u) == request[u].confidence_threshold >= LOW_CONFIDENCE_THRESHOLD

\* In every state of the stateless service: with the threshold at or above
\* the low-confidence threshold a detected side has at least that
\* confidence, the status is never pending_review and no low-confidence
\* item is made; an answer of pending_review without force_upload comes
\* only with a lowered threshold.
LowRouteClosed ==
    \A u \in Users :
        /\ Stateless /\ pc[u] # "idle" /\ ThresholdCoversLow(u) =>
              /\ detection_result[u].front_detected =>
                    detection_result[u].front_confidence >= LOW_CONFIDENCE_THRESHOLD
              /\ detection_result[u].back_detected =>
                    detection_result[u].back_confidence >= LOW_CONFIDENCE_THRESHOLD
              /\ detection_result[u].status # PENDING_REVIEW
              /\ review_item[u].reason # LOW_CONFIDENCE_REASON
              /\ \A i \in DOMAIN background_tasks[u] :
                    background_tasks[u][i].reason # LOW_CONFIDENCE_REASON
        /\ Stateless /\ Answered(u) /\ ReturnedStatus(u) = PENDING_REVIEW
                /\ ~request[u].force_upload =>
              ~ThresholdCoversLow(u)

\* In every step: an entry with the low-confidence reason joins the queue
\* only for a request with a lowered threshold.
LowRouteClosedStep ==
    manual_review_queue' # manual_review_queue
            /\ manual_review_queue'[Len(manual_review_queue')].reason = LOW_CONFIDENCE_REASON =>
        \E u \in Users :
            /\ ~ThresholdCoversLow(u)
            /\ background_tasks[u] # <<>>
            /\ manual_review_queue' = Append(manual_review_queue, Head(background_tasks[u]))

\* C27: with the request's confidence threshold at or above the
\* low-confidence threshold every detected side has at least the
\* low-confidence threshold, so neither the low-confidence pending_review
\* status nor a 'Low confidence detection' queue entry occurs; pending_review
\* without force_upload needs a threshold below the low-confidence one.
C27_LowRouteUnreachable == []LowRouteClosed /\ [][LowRouteClosedStep]_vars

\* The default threshold, a side detected, no force_upload: approved.
C27_Witness ==
    \E u \in Users :
        /\ Stateless /\ Decided(u) /\ ~FraudFlag(u)
        /\ request[u].confidence_threshold = CONFIDENCE_THRESHOLD
        /\ ~request[u].force_upload
        /\ detection_result[u].front_detected /\ detection_result[u].back_detected
        /\ ReturnedStatus(u) = APPROVED

\* A lowered threshold: pending_review without force_upload, and the
\* low-confidence entry in the queue.
C27_LoweredWitness ==
    \E u \in Users :
        /\ Stateless /\ Answered(u) /\ ~request[u].force_upload
        /\ ~ThresholdCoversLow(u)
        /\ ReturnedStatus(u) = PENDING_REVIEW
        /\ manual_review_queue # <<>>
        /\ manual_review_queue[1].reason = LOW_CONFIDENCE_REASON

\* ------------------------------------------------------------------ C28
\* C28: in every 200 response of the stateless /detect, data.both_detected
\* is a boolean, true exactly when front_detected and back_detected are
\* both true, and never a piece of the request.
C28_BothDetectedBoolean ==
    \A u \in Users :
        Stateless /\ Decided(u) /\ response[u].status_code = 200 =>
            response[u].data.both_detected =
                PyBool(response[u].data.front_detected /\ response[u].data.back_detected)

\* ------------------------------------------------------------------ C29
\* u's request was answered with status pending_review.
PendingAnswered(u) == Stateless /\ Answered(u) /\ ReturnedStatus(u) = PENDING_REVIEW

\* The queue holds one entry for u's request, with its user_id and the two
\* confidences of its response.
QueuedOnce(u) ==
    /\ CountIn(manual_review_queue, review_item[u]) = 1
    /\ review_item[u].user_id = request[u].user_id
    /\ review_item[u].front_confidence = response[u].data.front_confidence
    /\ review_item[u].back_confidence = response[u].data.back_confidence

\* C29: a request answered with pending_review has one review entry, first
\* as a scheduled background task and, once the task has run, in the queue,
\* where it arrives whenever scheduled tasks are run; the entry carries the
\* request's user_id and the confidences of the response.
C29_PendingEventuallyQueued ==
    /\ [](\A u \in Users : PendingAnswered(u) => EntriesFor(u) = 1)
    /\ \A u \in Users : PendingAnswered(u) ~> QueuedOnce(u)

\* The response has gone out, the task has not run, and a listing served
\* now would not show the entry.
C29_Witness ==
    \E u \in Users :
        /\ PendingAnswered(u)
        /\ background_tasks[u] = <<review_item[u]>>
        /\ CountIn(manual_review_queue, review_item[u]) = 0
        /\ ENABLED get_review_queue

\* The task has run and the entry is in the queue.
C29_QueuedWitness ==
    \E u \in Users : PendingAnswered(u) /\ QueuedOnce(u) /\ background_tasks[u] = <<>>

\* ------------------------------------------------------------------ C30
\* C30: in every response of the stateless /detect that carries the
\* detected field, the force-upload response included, detected is true
\* exactly when front_detected or back_detected of the same response is.
C30_DetectedIffAnySide ==
    \A u \in Users :
        Stateless /\ Answered(u) /\ "detected" \in response[u].keys =>
            (response[u].detected <=>
                (response[u].data.front_detected \/ response[u].data.back_detected))

====
